---- MODULE Spec2Model ----
(***************************************************************************)
(* Model of src/app.py, the BTC-USD dashboard.                             *)
(*                                                                         *)
(* The module-level statements of app.py run once, top to bottom: the      *)
(* download (line 12), the reshaping of the downloaded frame into df       *)
(* (lines 13-24), the computation of the ACF/PACF figures (line 51).  Then *)
(* the Dash server calls update_graph and update_table, in any order and   *)
(* with any dropdown value, for as long as the process lives.              *)
(*                                                                         *)
(* A frame is column oriented, as in pandas:                               *)
(*   [columns |-> sequence of labels, nlevels |-> levels of a label,       *)
(*    dtypes |-> one dtype per column, index_name |-> name of the index    *)
(*    ("" when it has none), index_dtype |-> its dtype,                    *)
(*    index |-> sequence of index values,                                  *)
(*    values |-> one sequence of cells per column]                         *)
(* Prices and volumes are naturals, dates are day numbers, and a missing   *)
(* cell is NaN.  Exact rationals stand for floats: a statistic is          *)
(* [num, den, root], the root-th root of num/den.                          *)
(***************************************************************************)
EXTENDS Integers, Sequences, FiniteSets, TLC

VARIABLES
    pc,                 \* how far the process has run
    btc,                \* the downloaded frame (line 12)
    df,                 \* the frame the callbacks read (lines 13-24)
    series,             \* the argument of generar_acf_pacf (line 51)
    acf_fig, pacf_fig,  \* the figures of the ACF y PACF tab (line 51)
    price_graph,        \* the figure update_graph returned last
    graph_input,        \* the value update_graph was last called with
    tabla_resumen,      \* the table update_table returned last
    table_input,        \* the value update_table was last called with
    table_inputs_seen,  \* different values update_table has seen: 0, 1, 2+
    fetches,            \* downloads attempted
    acf_runs,           \* runs of generar_acf_pacf
    error               \* the call whose exception ended the process

vars == <<pc, btc, df, series, acf_fig, pacf_fig, price_graph, graph_input,
          tabla_resumen, table_input, table_inputs_seen, fetches, acf_runs,
          error>>

\* ---------------------------------------------------------------- bounds
\* Largest number of rows the download returns.
MaxRows == 84
\* Prices and volumes range over 0..MaxVal.
MaxVal == 4

\* ------------------------------------------------------------- constants
\* generar_acf_pacf(series, nlags=40)
NLAGS == 40
\* A missing cell (float NaN, datetime NaT).
NaN == -1

colors == [background |-> "#f8fbe8", text |-> "#1a1a1a", accent |-> "#2d572c",
           secondary |-> "#ffd700", table_bg |-> "#ffffff"]

\* Nothing has been assigned or rendered yet.
None == [none |-> TRUE]

\* ------------------------------------------------------- sequence helpers
Range(s) == {s[i] : i \in 1..Len(s)}

\* Position of label c in a sequence of labels, 0 when absent.
IndexOf(labels, c) ==
    IF \E j \in 1..Len(labels) : labels[j] = c
    THEN CHOOSE j \in 1..Len(labels) :
             labels[j] = c /\ \A k \in 1..(j - 1) : labels[k] # c
    ELSE 0

\* pandas: c in frame.columns
HasColumn(frame, c) == c \in Range(frame.columns)

\* pandas: frame[c], the cells of column c in row order.
Column(frame, c) == frame.values[IndexOf(frame.columns, c)]

\* pandas: len(frame)
NRows(frame) == Len(frame.index)

\* pandas: s.isnull().all(); true of an empty series.
isnull_all(s) == \A i \in 1..Len(s) : s[i] = NaN

\* pandas: s.dropna(), the non-missing cells in their order.
dropna(s) == SelectSeq(s, LAMBDA v : v # NaN)

\* pandas: pd.to_datetime on a datetime column keeps every timestamp and
\* every missing cell (NaT) in place.
to_datetime(s) == [i \in 1..Len(s) |-> IF s[i] = NaN THEN NaN ELSE s[i]]

\* ------------------------------------------------------------ the download
\* yfinance labels the columns of a download (field, ticker).
Ticker == "BTC-USD"
Fields == <<"Close", "High", "Low", "Open", "Volume">>
DownloadColumns == [j \in 1..Len(Fields) |-> <<Fields[j], Ticker>>]

\* What the provider may return for one field: every day quoted, some days
\* missing (the second day and the last one), or no day quoted at all.
Patterns == {"full", "gaps", "allnull"}

\* The quote of field j on day i.
Quote(j, i) == (i * j + (i \div 3)) % (MaxVal + 1)

Cell(pattern, j, i, n) ==
    CASE pattern = "allnull" -> NaN
      [] pattern = "gaps" -> IF i = 2 \/ i = n THEN NaN ELSE Quote(j, i)
      [] OTHER -> Quote(j, i)

\* Row counts the download is drawn from: none, one, the counts around the
\* lag limits of the autocorrelation functions, and MaxRows.
RowCounts ==
    {0, 1, NLAGS, NLAGS + 1, 2 * NLAGS, 2 * NLAGS + 2, MaxRows}

\* Missing-data layouts of a download: no field has gaps, one field has,
\* or all have.
Layouts ==
    {[j \in 1..Len(Fields) |-> p] : p \in Patterns}
    \cup {[j \in 1..Len(Fields) |-> IF j = k THEN p ELSE "full"] :
              k \in 1..Len(Fields), p \in Patterns}

\* yf.download('BTC-USD', start='2018-12-01'): n daily rows indexed by
\* ascending, unique dates under the index name "Date".
Download(n, layout) ==
    [columns |-> DownloadColumns,
     nlevels |-> 2,
     dtypes |-> [j \in 1..Len(Fields) |-> "float64"],
     index_name |-> "Date",
     index_dtype |-> "datetime64",
     index |-> [i \in 1..n |-> i],
     values |-> [j \in 1..Len(Fields) |->
                    [i \in 1..n |-> Cell(layout[j], j, i, n)]]]

\* ------------------------------------------------------ data preparation
\* frame.reset_index(): the index becomes the first column and rows are
\* renumbered from 0.  The new column is labelled with the name of the index,
\* "index" when it has none, padded to (name, "") under two-level labels.
reset_index(frame) ==
    LET name == IF frame.index_name = "" THEN "index" ELSE frame.index_name
        label == IF frame.nlevels = 2 THEN <<name, "">> ELSE name
    IN  [columns |-> <<label>> \o frame.columns,
         nlevels |-> frame.nlevels,
         dtypes |-> <<frame.index_dtype>> \o frame.dtypes,
         index_name |-> "",
         index_dtype |-> "int64",
         index |-> [i \in 1..NRows(frame) |-> i - 1],
         values |-> <<frame.index>> \o frame.values]

\* [col[0] if isinstance(col, tuple) else col for col in df.columns]
FlattenColumns(labels) == [j \in 1..Len(labels) |-> labels[j][1]]

RenameMap ==
    [Date |-> "Fecha", Open |-> "Apertura", High |-> "Maximo",
     Low |-> "Minimo", Close |-> "Cierre", Volume |-> "Volumen"]

\* df.rename(columns={...}): labels in the map are replaced, others kept.
rename(labels) ==
    [j \in 1..Len(labels) |->
        IF labels[j] \in DOMAIN RenameMap THEN RenameMap[labels[j]]
        ELSE labels[j]]

\* Rows of the frame without a missing cell.
CompleteRows(frame) ==
    {i \in 1..NRows(frame) :
        \A j \in 1..Len(frame.values) : frame.values[j][i] # NaN}

\* s cut to the positions in keep, in order.
Take(s, keep) ==
    LET F[i \in 0..Len(s)] ==
            IF i = 0 THEN <<>>
            ELSE IF i \in keep THEN Append(F[i - 1], s[i]) ELSE F[i - 1]
    IN  F[Len(s)]

\* Faulty variant: rows with a missing cell are dropped (df.dropna(inplace=True)).
PrepareFrameDropna(raw) ==
    LET r == reset_index(raw)
        keep == CompleteRows(r)
    IN  [r EXCEPT !.columns = rename(FlattenColumns(r.columns)),
                  !.nlevels = 1,
                  !.index = Take(r.index, keep),
                  !.values = [j \in 1..Len(r.values) |->
                                 Take(r.values[j], keep)]]

\* Lines 13-24: the frame the callbacks read.
PrepareFrame(raw) ==
    LET r == reset_index(raw)
    IN  [r EXCEPT !.columns = rename(FlattenColumns(r.columns)),
                  !.nlevels = 1]

\* ------------------------------------------------------------- statistics
Stat(num, den, root) == [num |-> num, den |-> den, root |-> root]
NaNStat == Stat(0, 0, 1)

RECURSIVE SumTo(_, _)
\* x[1] + ... + x[i]
SumTo(x, i) == IF i = 0 THEN 0 ELSE x[i] + SumTo(x, i - 1)

Sum(x) == SumTo(x, Len(x))

Squares(x) == [i \in 1..Len(x) |-> x[i] * x[i]]

\* x in ascending order.
sort_values(x) == SortSeq(x, LAMBDA a, b : a < b)

\* The q-th quartile of the ascending sequence by linear interpolation
\* between the two cells around position (Len - 1) * q / 4, counted from 0.
Quantile(sorted, q) ==
    LET n == Len(sorted)
        pos == (n - 1) * q
        k == pos \div 4
        r == pos % 4
        lo == sorted[k + 1]
        hi == IF k + 2 <= n THEN sorted[k + 2] ELSE lo
    IN  IF n = 0 THEN NaNStat ELSE Stat((4 - r) * lo + r * hi, 4, 1)

\* The statistics of one column, over its non-missing cells.  The standard
\* deviation is the sample one (n - 1 in the denominator), undefined for
\* fewer than two cells; a datetime column has none.
ColumnStats(s, dtype) ==
    LET x == dropna(s)
        n == Len(x)
        sorted == sort_values(x)
        total == Sum(x)
        squares == Sum(Squares(x))
    IN  [count |-> Stat(n, 1, 1),
         mean |-> IF n = 0 THEN NaNStat ELSE Stat(total, n, 1),
         std |-> IF n < 2 \/ dtype = "datetime64" THEN NaNStat
                 ELSE Stat(n * squares - total * total, n * (n - 1), 2),
         min |-> IF n = 0 THEN NaNStat ELSE Stat(sorted[1], 1, 1),
         q25 |-> Quantile(sorted, 1),
         q50 |-> Quantile(sorted, 2),
         q75 |-> Quantile(sorted, 3),
         max |-> IF n = 0 THEN NaNStat ELSE Stat(sorted[n], 1, 1)]

\* The statistic a row of describe() names.
Statistic(name, stats) ==
    CASE name = "25%" -> stats.q25
      [] name = "50%" -> stats.q50
      [] name = "75%" -> stats.q75
      [] OTHER -> stats[name]

NumericStats == <<"count", "mean", "std", "min", "25%", "50%", "75%", "max">>
DatetimeStats == <<"count", "mean", "min", "25%", "50%", "75%", "max">>

\* Faulty variant: the rows of the first described column only.
DescribeIndexFirst(dtypes) ==
    IF dtypes[1] = "datetime64" THEN DatetimeStats ELSE NumericStats

\* The rows of describe(): the statistics of the described columns, those of
\* the column with the fewest statistics first.
DescribeIndex(dtypes) ==
    IF "datetime64" \in Range(dtypes)
    THEN IF "float64" \in Range(dtypes) THEN DatetimeStats \o <<"std">>
         ELSE DatetimeStats
    ELSE NumericStats

\* frame.describe(): one row per statistic, one column per numeric or
\* datetime column of the frame, in the frame's column order.
describe(frame) ==
    LET rows == DescribeIndex(frame.dtypes)
    IN  [columns |-> frame.columns,
         nlevels |-> frame.nlevels,
         dtypes |-> frame.dtypes,
         index_name |-> "",
         index_dtype |-> "object",
         index |-> rows,
         values |-> [j \in 1..Len(frame.columns) |->
                        LET stats == ColumnStats(frame.values[j],
                                                 frame.dtypes[j])
                        IN  [r \in 1..Len(rows) |->
                                Statistic(rows[r], stats)]]]

\* frame.to_dict("records"): one dict per row, keyed by column label.
to_dict_records(frame) ==
    [r \in 1..NRows(frame) |->
        [c \in Range(frame.columns) |-> Column(frame, c)[r]]]

\* -------------------------------------------------------- autocorrelation
\* The first `kept` autocorrelation coefficients of x: the autocovariances
\* of the demeaned series divided by the lag-0 one.  Scaled by nobs, the
\* demeaned cell t is nobs * x[t] - Sum(x); the scale cancels in the ratio.
\* A missing cell makes every coefficient NaN, and so does a constant
\* series (0/0).
Autocorrelations(x, kept) ==
    LET nobs == Len(x)
        total == Sum(x)
        d == [t \in 1..nobs |-> nobs * x[t] - total]
        acov(k) == Sum([t \in 1..(nobs - k) |-> d[t] * d[t + k]])
        c0 == acov(0)
        undefined == NaN \in Range(x) \/ c0 = 0
    IN  [k \in 1..kept |->
            IF undefined THEN NaNStat ELSE Stat(acov(k - 1), c0, 1)]

\* Faulty variant: the coefficients of lags 0..nlags-1 only.
acf_short(x, nlags) ==
    Autocorrelations(x, IF Len(x) < nlags THEN Len(x) ELSE nlags)

\* statsmodels acf(x, nlags): the coefficients of lags 0..nlags, or of lags
\* 0..nobs-1 for a series shorter than that.
acf(x, nlags) ==
    Autocorrelations(x, IF Len(x) < nlags + 1 THEN Len(x) ELSE nlags + 1)

\* acf raises on an empty series.
AcfFails(x) == Len(x) = 0

\* statsmodels pacf(x, nlags) refuses lags beyond half the sample.  Every
\* release with the check raises when nlags > nobs // 2; whether it raises
\* when nlags = nobs // 2 depends on the release.
PacfMustFail(x, nlags) == nlags > Len(x) \div 2
PacfMayFail(x, nlags) == nlags >= Len(x) \div 2

\* statsmodels pacf(x, nlags): nlags + 1 coefficients, the lag-0 one being 1.
\* The Yule-Walker coefficient of a lag above 0 is left uninterpreted: a term
\* naming the lag and the sample size.
pacf(x, nlags) ==
    [k \in 1..(nlags + 1) |->
        IF k = 1 THEN [fn |-> "one", lag |-> 0, nobs |-> Len(x)]
        ELSE [fn |-> "pacf_yw", lag |-> k - 1, nobs |-> Len(x)]]

\* np.arange(n)
arange(n) == [i \in 1..n |-> i - 1]

\* A figure holding one bar trace.
BarFigure(x, y, color, title) ==
    [data |-> <<[type |-> "bar", x |-> x, y |-> y, marker_color |-> color]>>,
     layout |-> [title |-> title, template |-> "plotly_white"]]

\* generar_acf_pacf(series, nlags) when neither library call raises.
generar_acf_pacf(x, nlags) ==
    LET acf_vals == acf(x, nlags)
        pacf_vals == pacf(x, nlags)
        lags == arange(Len(acf_vals))
    IN  [acf_fig |-> BarFigure(lags, acf_vals, colors.accent,
                               "ACF del Precio"),
         pacf_fig |-> BarFigure(lags, pacf_vals, colors.secondary,
                                "PACF del Precio")]

\* Faulty variant: the missing closing prices are kept.
CierreSeriesRaw(frame) == Column(frame, "Cierre")

\* df['Cierre'].dropna(), the argument of line 51.
CierreSeries(frame) == dropna(Column(frame, "Cierre"))

\* ---------------------------------------------------------------- callbacks
\* Values the dropdown can hold, and other names a request may carry.
Selectable == {"Apertura", "Maximo", "Minimo", "Cierre"}
PriceTypes == Selectable \cup {"Fecha", "Volumen", "Close"}

\* go.Figure() with one Scatter trace in line mode and the chart's layout.
\* (Titles are written without their emoji and accents.)
LineFigure(x, y, name) ==
    [data |-> <<[type |-> "scatter", x |-> x, y |-> y, mode |-> "lines",
                 line |-> [color |-> colors.text], name |-> name]>>,
     layout |-> [title |-> "Evolucion del Precio de Bitcoin (USD)",
                 xaxis_title |-> "Fecha",
                 yaxis_title |-> "Precio (USD)",
                 template |-> "plotly_white"]]

\* go.Figure() with no trace and the placeholder's layout.
PlaceholderFigure ==
    [data |-> <<>>,
     layout |-> [title |-> "Datos no disponibles",
                 template |-> "plotly_white"]]

\* Faulty variant: the prices are plotted in ascending order.
update_graph_sorted(frame, price_type) ==
    IF HasColumn(frame, price_type)
       /\ ~isnull_all(Column(frame, price_type))
    THEN LineFigure(to_datetime(Column(frame, "Fecha")),
                    sort_values(Column(frame, price_type)), price_type)
    ELSE PlaceholderFigure

\* Faulty variant: the test for an all-null column is left out.
update_graph_unchecked(frame, price_type) ==
    IF HasColumn(frame, price_type)
    THEN LineFigure(to_datetime(Column(frame, "Fecha")),
                    Column(frame, price_type), price_type)
    ELSE PlaceholderFigure

\* Faulty variant: the missing prices are dropped before plotting.
update_graph_dropna(frame, price_type) ==
    IF HasColumn(frame, price_type)
       /\ ~isnull_all(Column(frame, price_type))
    THEN LineFigure(to_datetime(Column(frame, "Fecha")),
                    dropna(Column(frame, price_type)), price_type)
    ELSE PlaceholderFigure

\* update_graph(price_type)
update_graph(frame, price_type) ==
    IF HasColumn(frame, price_type)
       /\ ~isnull_all(Column(frame, price_type))
    THEN LineFigure(to_datetime(Column(frame, "Fecha")),
                    Column(frame, price_type), price_type)
    ELSE PlaceholderFigure

\* resumen.columns.map(str): every label of the summary is a string already.
map_str(labels) == [j \in 1..Len(labels) |-> labels[j]]

\* dash_table.DataTable(...) over the summary frame.
DataTable(resumen) ==
    [data |-> to_dict_records(resumen),
         columns |-> [j \in 1..Len(resumen.columns) |->
                         [name |-> resumen.columns[j],
                          id |-> resumen.columns[j]]],
         style_table |-> [overflowX |-> "auto"],
         style_cell |-> [textAlign |-> "center",
                         backgroundColor |-> colors.table_bg,
                         color |-> colors.text],
         style_header |-> [backgroundColor |-> colors.accent,
                           color |-> "black", fontWeight |-> "bold"]]

\* frame[[c]]: the frame cut to one column.
OnlyColumn(frame, c) ==
    [frame EXCEPT !.columns = <<c>>,
                  !.dtypes = <<frame.dtypes[IndexOf(frame.columns, c)]>>,
                  !.values = <<Column(frame, c)>>]

\* The summary of update_table: df.describe().reset_index() with its labels
\* mapped to strings.
Resumen(frame) ==
    LET described == reset_index(describe(frame))
    IN  [described EXCEPT !.columns = map_str(described.columns)]

\* Faulty variant: the summary covers the selected column only.
update_table_selected(frame, ignored) ==
    IF HasColumn(frame, ignored)
    THEN DataTable(Resumen(OnlyColumn(frame, ignored)))
    ELSE DataTable(Resumen(frame))

\* update_table(_): the argument is not read.
update_table(frame, ignored) == DataTable(Resumen(frame))

\* ------------------------------------------------------------------ actions
startup == <<btc, df, series, acf_fig, pacf_fig, fetches, acf_runs>>
rendered == <<price_graph, graph_input, tabla_resumen, table_input,
              table_inputs_seen>>

Init ==
    /\ pc = "start"
    /\ btc = None
    /\ df = None
    /\ series = <<>>
    /\ acf_fig = None
    /\ pacf_fig = None
    /\ price_graph = None
    /\ graph_input = ""
    /\ tabla_resumen = None
    /\ table_input = ""
    /\ table_inputs_seen = 0
    /\ fetches = 0
    /\ acf_runs = 0
    /\ error = ""

\* Line 12: the download returns a frame.
DownloadReturns ==
    /\ pc = "start"
    /\ \E n \in RowCounts, layout \in Layouts : btc' = Download(n, layout)
    /\ fetches' = fetches + 1
    /\ pc' = "downloaded"
    /\ UNCHANGED <<df, series, acf_fig, pacf_fig, acf_runs, error, rendered>>

\* Line 12: the download raises; nothing catches it and the process ends.
DownloadRaises ==
    /\ pc = "start"
    /\ fetches' = fetches + 1
    /\ error' = "download"
    /\ pc' = "terminated"
    /\ UNCHANGED <<btc, df, series, acf_fig, pacf_fig, acf_runs, rendered>>

\* Lines 13-24.
Prepare ==
    /\ pc = "downloaded"
    /\ df' = PrepareFrame(btc)
    /\ pc' = "prepared"
    /\ UNCHANGED <<btc, series, acf_fig, pacf_fig, fetches, acf_runs, error,
                   rendered>>

\* Line 51, both library calls returning.
AcfPacfReturns ==
    /\ pc = "prepared"
    /\ series' = CierreSeries(df)
    /\ ~AcfFails(series')
    /\ ~PacfMustFail(series', NLAGS)
    /\ LET figs == generar_acf_pacf(series', NLAGS)
       IN  acf_fig' = figs.acf_fig /\ pacf_fig' = figs.pacf_fig
    /\ acf_runs' = acf_runs + 1
    /\ pc' = "serving"
    /\ UNCHANGED <<btc, df, fetches, error, rendered>>

\* Line 51, a library call raising; nothing catches it and the process ends.
AcfPacfRaises ==
    /\ pc = "prepared"
    /\ series' = CierreSeries(df)
    /\ AcfFails(series') \/ PacfMayFail(series', NLAGS)
    /\ acf_runs' = acf_runs + 1
    /\ error' = IF AcfFails(series') THEN "acf" ELSE "pacf"
    /\ pc' = "terminated"
    /\ UNCHANGED <<btc, df, acf_fig, pacf_fig, fetches, rendered>>

\* Faulty variant: the callback downloads the data again.
UpdateGraphRefetch(price_type) ==
    /\ pc = "serving"
    /\ price_graph' = update_graph(df, price_type)
    /\ graph_input' = price_type
    /\ fetches' = fetches + 1
    /\ UNCHANGED <<pc, error, btc, df, series, acf_fig, pacf_fig, acf_runs,
                   tabla_resumen, table_input, table_inputs_seen>>

\* The server runs update_graph for a dropdown value.
UpdateGraph(price_type) ==
    /\ pc = "serving"
    /\ price_graph' = update_graph(df, price_type)
    /\ graph_input' = price_type
    /\ UNCHANGED <<pc, error, startup, tabla_resumen, table_input,
                   table_inputs_seen>>

\* Faulty variant: the summary is built in place (df.reset_index(inplace=True)).
UpdateTableInPlace(price_type) ==
    /\ pc = "serving"
    /\ df' = reset_index(df)
    /\ tabla_resumen' = update_table(df', price_type)
    /\ table_input' = price_type
    /\ table_inputs_seen' = IF table_inputs_seen = 0 THEN 1 ELSE 2
    /\ UNCHANGED <<pc, error, btc, series, acf_fig, pacf_fig, fetches,
                   acf_runs, price_graph, graph_input>>

\* The server runs update_table for a dropdown value.
UpdateTable(price_type) ==
    /\ pc = "serving"
    /\ tabla_resumen' = update_table(df, price_type)
    /\ table_input' = price_type
    /\ table_inputs_seen' =
           CASE table_inputs_seen = 0 -> 1
             [] table_inputs_seen = 1 /\ price_type # table_input -> 2
             [] OTHER -> table_inputs_seen
    /\ UNCHANGED <<pc, error, startup, price_graph, graph_input>>

Next ==
    \/ DownloadReturns
    \/ DownloadRaises
    \/ Prepare
    \/ AcfPacfReturns
    \/ AcfPacfRaises
    \/ \E p \in PriceTypes : UpdateGraph(p)
    \/ \E p \in PriceTypes : UpdateTable(p)

Spec == Init /\ [][Next]_vars

\* ------------------------------------------------------------- properties
\* The non-missing cells of column c of df.
NonNull(c) == {i \in 1..NRows(df) : Column(df, c)[i] # NaN}
\* The missing cells of column c of df.
Nulls(c) == {i \in 1..NRows(df) : Column(df, c)[i] = NaN}

GraphRendered == pc = "serving" /\ graph_input # ""
TableRendered == pc = "serving" /\ table_inputs_seen > 0
EntriesPerFigure == NLAGS + 1

\* C1: when update_graph is asked for a field that is a column of df with at
\* least one non-null value, the figure holds exactly one line trace whose
\* i-th point is (Fecha of row i, value of the field in row i), one point per
\* row of df, in row order.
C1_LineTraceFollowsRows ==
    (GraphRendered /\ HasColumn(df, graph_input)
     /\ NonNull(graph_input) # {})
    => /\ Len(price_graph.data) = 1
       /\ LET trace == price_graph.data[1]
          IN  /\ trace.type = "scatter"
              /\ trace.mode = "lines"
              /\ DOMAIN trace.x = 1..NRows(df)
              /\ DOMAIN trace.y = 1..NRows(df)
              /\ \A i \in 1..NRows(df) :
                    /\ trace.x[i] = Column(df, "Fecha")[i]
                    /\ trace.y[i] = Column(df, graph_input)[i]

\* C1 happens: a column outside the dropdown, with missing and non-missing
\* cells, has been plotted.
C1_Witness ==
    /\ GraphRendered
    /\ graph_input = "Volumen"
    /\ NonNull("Volumen") # {}
    /\ Nulls("Volumen") # {}
    /\ Len(price_graph.data) = 1

\* C2: when update_graph is asked for a field that is no column of df, or
\* for a column that is null in every row, it returns the "Datos no
\* disponibles" placeholder with no trace, and the process is in no error
\* state.
C2_PlaceholderWhenNoData ==
    (GraphRendered
     /\ (~HasColumn(df, graph_input) \/ NonNull(graph_input) = {}))
    => /\ price_graph.data = <<>>
       /\ price_graph.layout.title = "Datos no disponibles"
       /\ error = ""

\* C2 happens: a dropdown field that is null in every row of a non-empty df
\* has been asked for.
C2_Witness ==
    /\ GraphRendered
    /\ graph_input \in Selectable
    /\ NRows(df) > 0
    /\ NonNull(graph_input) = {}
    /\ price_graph.data = <<>>

\* C3 as stated: for a dropdown field with at least one non-null value, the
\* line series is as long as the number of rows in which the field is
\* non-null.
C3_LengthIsNonNullCount ==
    (GraphRendered /\ graph_input \in Selectable
     /\ NonNull(graph_input) # {})
    => /\ Len(price_graph.data) = 1
       /\ Len(price_graph.data[1].y) = Cardinality(NonNull(graph_input))

\* C3 amended: for a dropdown field with at least one non-null value, the
\* line series is as long as df, its null rows included.
C3_LengthIsRowCount ==
    (GraphRendered /\ graph_input \in Selectable
     /\ NonNull(graph_input) # {})
    => /\ Len(price_graph.data) = 1
       /\ Len(price_graph.data[1].y) = NRows(df)
       /\ Len(price_graph.data[1].y)
              = Cardinality(NonNull(graph_input))
                + Cardinality(Nulls(graph_input))

\* C3 happens: the closing price, null in some rows, has been plotted.
C3_Witness ==
    /\ GraphRendered
    /\ graph_input = "Cierre"
    /\ Nulls("Cierre") # {}
    /\ Len(price_graph.data[1].y) > Cardinality(NonNull("Cierre"))

\* C4: once the server runs, no step changes df: its rows, columns and
\* values stay what they were when initialization finished.
C4_DfImmutable == [][pc = "serving" => df' = df]_vars

\* C4 happens: both callbacks have run, update_table with two different
\* values, over a df holding missing cells.
C4_Witness ==
    /\ GraphRendered
    /\ table_inputs_seen = 2
    /\ Nulls("Apertura") # {}

\* C5: once update_table has returned a table, every step leaves the table
\* as it is: a later update_table returns the same table whatever value it
\* is passed and whatever ran since the table was made.
C5_TableIgnoresInput ==
    [][TableRendered => tabla_resumen' = tabla_resumen]_vars

\* C5 happens: update_table has run with two different values, the last one
\* no column of df, and update_graph has run as well.
C5_Witness ==
    /\ TableRendered
    /\ table_inputs_seen = 2
    /\ ~HasColumn(df, table_input)
    /\ graph_input # ""
    /\ tabla_resumen # None

\* C6: over a df of at least one row, the table of update_table has exactly
\* 8 rows, one for each of count, mean, std, min, 25%, 50%, 75%, max.
C6_EightStatistics ==
    (TableRendered /\ NRows(df) >= 1)
    => /\ Len(tabla_resumen.data) = 8
       /\ \A name \in Range(NumericStats) :
             Cardinality({r \in 1..Len(tabla_resumen.data) :
                             tabla_resumen.data[r]["index"] = name}) = 1

\* C6 happens: the table has been made over a df of more than 2 * NLAGS rows
\* with a column that is null in every row.
C6_Witness ==
    /\ TableRendered
    /\ NRows(df) > 2 * NLAGS
    /\ \E c \in Selectable : NonNull(c) = {}
    /\ Len(tabla_resumen.data) = 8

\* Both figures hold NLAGS + 1 bars, at lags 0..NLAGS.
FullFigures ==
    /\ error = ""
    /\ pc = "serving"
    /\ acf_fig.data[1].x = arange(EntriesPerFigure)
    /\ pacf_fig.data[1].x = arange(EntriesPerFigure)
    /\ Len(acf_fig.data[1].y) = EntriesPerFigure
    /\ Len(pacf_fig.data[1].y) = EntriesPerFigure

\* C7 as stated: for every series longer than NLAGS, generar_acf_pacf does
\* not fail and gives both sequences NLAGS + 1 entries, at lags 0..NLAGS.
C7_AnySeriesOver40 ==
    (acf_runs = 1 /\ Len(series) > NLAGS) => FullFigures

\* C7 amended: for every series of at least 2 * NLAGS + 2 cells,
\* generar_acf_pacf does not fail and gives both sequences NLAGS + 1 entries,
\* at lags 0..NLAGS.
C7_SeriesOverTwiceTheLags ==
    (acf_runs = 1 /\ Len(series) >= 2 * NLAGS + 2) => FullFigures

\* C7 happens: generar_acf_pacf has returned for a series of at least
\* 2 * NLAGS + 2 cells.
C7_Witness ==
    /\ acf_runs = 1
    /\ Len(series) >= 2 * NLAGS + 2
    /\ pc = "serving"
    /\ Len(pacf_fig.data[1].y) = EntriesPerFigure

\* C8: the figures are made once, by the step that ends initialization, from
\* the Cierre column without its nulls; no callback runs before that step and
\* no step after it changes the figures or runs generar_acf_pacf again.
C8_FiguresMadeOnceAtStartup ==
    [][/\ (pc = "prepared" /\ pc' = "serving")
          => /\ acf_runs' = 1
             /\ series' = dropna(Column(df, "Cierre"))
             /\ <<acf_fig', pacf_fig'>>
                    = <<generar_acf_pacf(dropna(Column(df, "Cierre")),
                                         NLAGS).acf_fig,
                        generar_acf_pacf(dropna(Column(df, "Cierre")),
                                         NLAGS).pacf_fig>>
       /\ pc # "serving"
          => (graph_input = "" /\ table_inputs_seen = 0
              /\ (pc' # "serving" => UNCHANGED <<acf_fig, pacf_fig>>))
       /\ pc = "serving"
          => UNCHANGED <<acf_fig, pacf_fig, acf_runs, series>>]_vars

\* C8 happens: both callbacks have run over a df whose Cierre column holds
\* nulls, and the figures are there.
C8_Witness ==
    /\ GraphRendered
    /\ TableRendered
    /\ Nulls("Cierre") # {}
    /\ acf_runs = 1
    /\ acf_fig # None
    /\ pacf_fig # None

\* C9 as stated: the df the callbacks read holds no null in a price field.
C9_NoNullPriceInDf ==
    pc = "serving" => \A c \in Selectable : Nulls(c) = {}

\* C9 amended: data preparation drops no row: df holds every row of the
\* download, nulls included, in order.  Nulls are removed only from the copy
\* of Cierre that generar_acf_pacf is given.
C9_RowsKeptNullsDroppedForAcfOnly ==
    (df # None)
    => /\ NRows(df) = NRows(btc)
       /\ Column(df, "Fecha") = btc.index
       /\ \A j \in 1..Len(Fields) :
             Column(df, RenameMap[Fields[j]]) = btc.values[j]
       /\ acf_runs = 1
          => /\ NaN \notin Range(series)
             /\ Len(series) = Cardinality(NonNull("Cierre"))

\* C9 happens: the server runs over a df with nulls in Cierre and other price
\* fields, and the series given to generar_acf_pacf has none.
C9_Witness ==
    /\ pc = "serving"
    /\ \A c \in Selectable : Nulls(c) # {}
    /\ Len(series) < NRows(df)
    /\ NaN \notin Range(series)

\* C10: the download is attempted exactly once, as the first step; no callback
\* downloads again; a callback runs only after a download that returned; and a
\* download that raises ends the process before any callback.
C10_OneFetchBeforeServing ==
    /\ fetches = IF pc = "start" THEN 0 ELSE 1
    /\ (graph_input # "" \/ table_inputs_seen > 0)
       => (pc = "serving" /\ error = "" /\ btc # None)
    /\ error = "download"
       => (pc = "terminated" /\ btc = None /\ df = None
           /\ graph_input = "" /\ table_inputs_seen = 0)

\* C10 happens: both callbacks have been served after the one download.
C10_Witness ==
    /\ GraphRendered
    /\ TableRendered
    /\ fetches = 1
    /\ btc # None

====
